---- MODULE Spec2Model ----
(***************************************************************************)
(* Model of main.py: a news agent that fetches articles from NewsAPI,      *)
(* filters them by a keyword heuristic, summarizes each survivor with a    *)
(* length budget derived from the text, and repeats daily.                 *)
(*                                                                         *)
(* Two specifications:                                                     *)
(*   Spec     the process: __main__, the schedule loop and run_agent       *)
(*   SpecSum  dynamic_summarize alone, over texts of 0..MaxWords words and *)
(*            a grid of (min_len, max_len) arguments                       *)
(***************************************************************************)
EXTENDS Integers, Sequences, FiniteSets, TLC

VARIABLES
    NEWSAPI_KEY,      \* os.getenv("NEWSAPI_KEY"): TRUE when set and non-empty
    args,             \* parse_arguments(): once, source, article_type, lista
    pc,               \* position of __main__
    rpc,              \* position inside run_agent ("idle": no run in progress)
    running,          \* number of run_agent activations on the stack
    error,            \* the uncaught exception that ended the process, or "none"
    registered,       \* schedule.every().day.at(args.time).do(...) has been called
    due,              \* the registered job's next_run has passed
    polled,           \* schedule.run_pending() has been called at least once
    fires,            \* how many times the daily trigger has come due
    onceRuns,         \* runs started by `if args.once`
    jobRuns,          \* runs started by schedule.run_pending()
    articles,         \* run_agent local
    filtered,         \* run_agent local
    final_summaries,  \* run_agent local
    calls,            \* calls of summarizer(...) made by the run in progress / last run
    netlog,           \* requests.get(...) calls made by the run in progress / last run
    printed,          \* what the run in progress / last run printed
    word_count,       \* SpecSum: len(text.split()) of the text being built
    min_len,          \* SpecSum: argument of dynamic_summarize
    max_len,          \* SpecSum: argument of dynamic_summarize
    inference         \* SpecSum: the keyword arguments of the summarizer call in flight

vars == <<NEWSAPI_KEY, args, pc, rpc, running, error, registered, due, polled,
          fires, onceRuns, jobRuns, articles, filtered, final_summaries, calls,
          netlog, printed, word_count, min_len, max_len, inference>>

procVars == <<NEWSAPI_KEY, args, pc, rpc, running, error, registered, due, polled,
              fires, onceRuns, jobRuns, articles, filtered, final_summaries, calls,
              netlog, printed>>

sumVars == <<word_count, min_len, max_len, inference>>

(***************************************************************************)
(* Bounds                                                                  *)
(***************************************************************************)
MaxArticles == 2     \* longest provider response explored
MaxFires == 2        \* daily trigger fires explored
MaxWords == 1000     \* longest text (in words) explored by SpecSum
LenLo == 2           \* SpecSum explores min_len, max_len in -LenLo .. LenHi
LenHi == 9

(***************************************************************************)
(* Python values: str, None, and an absent dict key                        *)
(***************************************************************************)
Str(s) == <<"str", s>>
None == <<"none", "">>
Missing == <<"missing", "">>

IsStr(v) == v[1] = "str"

\* bool(v) for a str or None
Truthy(v) == IsStr(v) /\ v[2] # ""

\* f"{v}"
Format(v) == IF IsStr(v) THEN v[2] ELSE "None"

\* dict.get(key, default): the default only when the key is absent
Get(v, default) == IF v = Missing THEN default ELSE v

\* v or ""
OrEmpty(v) == IF Truthy(v) THEN v ELSE Str("")

\* String values are kept to ASCII: the letter o-acute of the keywords is written
\* "@" and its capital "#".
UpperChars == "ABCDEFGHIJKLMNOPQRSTUVWXYZ#"
LowerChars == "abcdefghijklmnopqrstuvwxyz@"

LowerChar(c) ==
    IF \E k \in 1..Len(UpperChars) : SubSeq(UpperChars, k, k) = c
    THEN LET k == CHOOSE k \in 1..Len(UpperChars) : SubSeq(UpperChars, k, k) = c
         IN SubSeq(LowerChars, k, k)
    ELSE c

RECURSIVE Lower(_)
\* str.lower()
Lower(s) == IF s = "" THEN "" ELSE LowerChar(SubSeq(s, 1, 1)) \o Lower(SubSeq(s, 2, Len(s)))

\* needle in hay
Contains(needle, hay) ==
    \E k \in 1..(Len(hay) - Len(needle) + 1) : SubSeq(hay, k, k + Len(needle) - 1) = needle

IsSpace(c) == c \in {" ", "\n", "\t"}

\* len(text.split())
WordCount(text) ==
    Cardinality({k \in 1..Len(text) :
        /\ ~IsSpace(SubSeq(text, k, k))
        /\ (k = 1 \/ IsSpace(SubSeq(text, k - 1, k - 1)))})

(***************************************************************************)
(* dynamic_summarize                                                       *)
(***************************************************************************)
DEFAULT_MIN_LEN == 100
DEFAULT_MAX_LEN == 450
HEADROOM == 5

Min(a, b) == IF a <= b THEN a ELSE b

\* int(word_count * 0.8): Python multiplies by the double nearest 0.8, which lies
\* just above 4/5, and truncates; for 0 <= word_count < 2*10^6 that is floor(8n/10).
EightyPercent(n) == (n * 8) \div 10

\* Mutants of EstimatedMaxLen
EstimatedMaxLen_NoRaise(wc, mn, mx) == Min(mx, EightyPercent(wc))

EstimatedMaxLen_Uncapped(wc, mn, mx) ==
    IF EightyPercent(wc) < mn THEN mn + HEADROOM ELSE EightyPercent(wc)

EstimatedMaxLen_RaiseToMin(wc, mn, mx) ==
    LET e == Min(mx, EightyPercent(wc)) IN IF e < mn THEN mn ELSE e

\* estimated_max_len as passed to summarizer(...)
EstimatedMaxLen(wc, mn, mx) ==
    LET e == Min(mx, EightyPercent(wc)) IN IF e < mn THEN mn + HEADROOM ELSE e

\* The keyword arguments of the one summarizer(...) call dynamic_summarize makes
SummarizerKwargs(wc, mn, mx) ==
    [max_length |-> EstimatedMaxLen(wc, mn, mx), min_length |-> mn, do_sample |-> FALSE]

(***************************************************************************)
(* SpecSum: dynamic_summarize as a pure function of the text and arguments *)
(***************************************************************************)
LenGrid == (0 - LenLo)..LenHi

ProcIdle ==
    /\ NEWSAPI_KEY = FALSE
    /\ args = [once |-> FALSE, source |-> "newsapi", article_type |-> "any", lista |-> None]
    /\ pc = "main" /\ rpc = "idle" /\ running = 0 /\ error = "none"
    /\ registered = FALSE /\ due = FALSE /\ polled = FALSE
    /\ fires = 0 /\ onceRuns = 0 /\ jobRuns = 0
    /\ articles = <<>> /\ filtered = <<>> /\ final_summaries = <<>>
    /\ calls = <<>> /\ netlog = <<>> /\ printed = <<>>

SumInit ==
    /\ ProcIdle
    /\ word_count = 0
    /\ \/ min_len \in LenGrid /\ max_len \in LenGrid
       \/ min_len = DEFAULT_MIN_LEN /\ max_len = DEFAULT_MAX_LEN
    /\ inference = <<>>

\* the caller's text grows by one whitespace-delimited word
SumAddWord ==
    /\ inference = <<>>
    /\ word_count < MaxWords
    /\ word_count' = word_count + 1
    /\ UNCHANGED <<min_len, max_len, inference, procVars>>

\* dynamic_summarize(text, min_len, max_len) reaches summarizer(...)
SumCall ==
    /\ inference = <<>>
    /\ inference' = <<SummarizerKwargs(word_count, min_len, max_len)>>
    /\ UNCHANGED <<word_count, min_len, max_len, procVars>>

\* summarizer(...) returns and dynamic_summarize returns result[0]['summary_text']
SumReturn ==
    /\ inference # <<>>
    /\ inference' = <<>>
    /\ UNCHANGED <<word_count, min_len, max_len, procVars>>

SumNext == SumAddWord \/ SumCall \/ SumReturn

SpecSum == SumInit /\ [][SumNext]_vars

\* C1: the max_length handed to the summarizer is never below the min_length
\* handed to it, whatever the text and whatever min_len and max_len are.
C1_MaxAtLeastMin ==
    inference # <<>> => inference[1].max_length >= inference[1].min_length

\* a call with max_len below min_len, on an empty text
C1_Witness ==
    /\ inference # <<>>
    /\ max_len < min_len
    /\ word_count = 0
    /\ inference[1].min_length = min_len

\* floor(word_count * 0.8), stated without division
IsFloorOfEightyPercent(n, wc) == 10 * n <= 8 * wc /\ 8 * wc < 10 * (n + 1)

\* C5: with the defaults (100, 450) the max_length passed is
\* min(450, floor(0.8 * word_count)) when that is at least 100 and 105 otherwise;
\* 50 words give 105 and 1000 words give 450.
C5_DefaultBudget ==
    (inference # <<>> /\ min_len = 100 /\ max_len = 450) =>
        LET m == inference[1].max_length IN
        /\ \E n \in 0..word_count :
              /\ IsFloorOfEightyPercent(n, word_count)
              /\ m = IF Min(450, n) >= 100 THEN Min(450, n) ELSE 105
        /\ word_count = 50 => m = 105
        /\ word_count = 1000 => m = 450

\* the 1000-word text of the example, summarized with the defaults
C5_Witness ==
    /\ inference # <<>>
    /\ min_len = 100 /\ max_len = 450
    /\ word_count = 1000
    /\ inference[1].max_length = 450

\* C10: when max_len >= min_len + 5, the max_length passed never exceeds max_len.
C10_WithinCallerCap ==
    (inference # <<>> /\ max_len >= min_len + 5) => inference[1].max_length <= max_len

\* a short text that takes the raise to min_len + 5 with max_len exactly min_len + 5
C10_Witness ==
    /\ inference # <<>>
    /\ max_len = min_len + 5
    /\ EightyPercent(word_count) < min_len
    /\ inference[1].max_length = max_len

(***************************************************************************)
(* The provider: what requests.get(...) can bring back                     *)
(***************************************************************************)
RawArticle(t, d, u) == [title |-> t, description |-> d, url |-> u]

\* article objects of a provider response: strings, nulls and absent keys
RawPool == {
    RawArticle(Str("New Study on Climate"), Str("Agencia EFE"), Str("u1")),
    RawArticle(Str("Weather Today"), Str(""), Str("u2")),
    RawArticle(Str("Op-Ed column"), Str("DIVULGACI#N, by The Associated Press"), Missing),
    RawArticle(Missing, Str("Reuters y AP informan"), Str("u4")),
    RawArticle(None, Missing, Str("u5")),
    RawArticle(Str(""), None, Str("u6")) }

RECURSIVE SeqsUpTo(_, _)
SeqsUpTo(S, n) ==
    IF n = 0 THEN {<<>>}
    ELSE LET shorter == SeqsUpTo(S, n - 1)
         IN shorter \cup {Append(q, x) : q \in {r \in shorter : Len(r) = n - 1}, x \in S}

\* data.get("articles", []) of a 200 response
Responses == SeqsUpTo(RawPool, MaxArticles)

\* requests.get(...): raises, answers with a non-200 status, or answers 200
NetOutcomes == {"raise", "error", "ok"}

\* the loop body of fetch_from_newsapi / fetch_from_lista
Normalize(art) ==
    [title |-> Get(art.title, Str("")),
     description |-> Get(art.description, Str("")),
     url |-> Get(art.url, Str(""))]

Results(raw) == [k \in 1..Len(raw) |-> Normalize(raw[k])]

DEFAULT_DOMAINS == "bbc.co.uk,washingtonpost.com,lemonde.fr,elpais.com,elmundo.es,europapress.es"

\* the "domains" parameter fetch_from_lista sends
Domains(domain_string) ==
    IF Truthy(domain_string) THEN domain_string[2] ELSE DEFAULT_DOMAINS

\* params of the request fetch_news sends for a source
Request(source, domain_string) ==
    IF source = "newsapi" THEN [sortBy |-> "publishedAt", domains |-> Missing]
    ELSE [sortBy |-> "publishedAt", domains |-> Str(Domains(domain_string))]

(***************************************************************************)
(* filter_by_article_type                                                  *)
(***************************************************************************)
TitleLower(art) == Lower(art.title[2])

DescLower(art) == IF Truthy(art.description) THEN Lower(art.description[2]) ELSE ""

\* the condition under which the loop body appends art
Keep(art, article_type) ==
    LET t == TitleLower(art)
        d == DescLower(art)
    IN CASE article_type = "divulgacion" ->
              Contains("divulgaci@n", t) \/ Contains("divulgaci@n", d)
         [] article_type = "paper" ->
              \/ Contains("paper", t) \/ Contains("study", t) \/ Contains("investigaci@n", t)
              \/ Contains("paper", d) \/ Contains("study", d) \/ Contains("investigaci@n", d)
         [] article_type = "opinion" ->
              \/ Contains("opini@n", t) \/ Contains("column", t) \/ Contains("op-ed", t)
              \/ Contains("opini@n", d) \/ Contains("column", d) \/ Contains("op-ed", d)
         [] article_type = "agency" ->
              \/ Contains("agencia", t) \/ Contains("reuters", t)
              \/ Contains("associated press", t)
              \/ Contains("ap ", t) \/ Contains("afp", t)
              \/ Contains("agencia", d) \/ Contains("reuters", d)
              \/ Contains("ap ", d) \/ Contains("afp", d)
         [] OTHER -> FALSE

\* art["title"].lower() raises AttributeError when the title is None
FilterRaises(arts, article_type) ==
    /\ article_type \notin {"all", "any"}
    /\ \E k \in 1..Len(arts) : ~IsStr(arts[k].title)

Reverse(q) == [k \in 1..Len(q) |-> q[Len(q) + 1 - k]]

\* Mutant of FilterByArticleType: survivors are prepended instead of appended
FilterByArticleType_Prepend(arts, article_type) ==
    IF article_type \in {"all", "any"} THEN arts
    ELSE Reverse(SelectSeq(arts, LAMBDA a : Keep(a, article_type)))

\* the list filter_by_article_type returns (when it does not raise)
FilterByArticleType(arts, article_type) ==
    IF article_type \in {"all", "any"} THEN arts
    ELSE SelectSeq(arts, LAMBDA a : Keep(a, article_type))

(***************************************************************************)
(* run_agent                                                               *)
(***************************************************************************)
ArticleTypes == {"divulgacion", "paper", "opinion", "agency", "all", "any"}
Sources == {"newsapi", "lista"}

\* result[0]['summary_text'] of the opaque summarization pipeline
Summaries == {"s1", "s2"}

Msg(tag) == [kind |-> tag, n |-> 0, title |-> "", url |-> "", summary |-> ""]

\* f"{i}. Titulo: {title}\n   URL: {url}\n   Resumen: {summary_text}\n"
Block(i, title, url, summary_text) ==
    [kind |-> "block", n |-> i, title |-> Format(title), url |-> Format(url),
     summary |-> summary_text]

\* f"{title}. {desc}" with desc = art["description"] or ""
TextToSummarize(art) == Format(art.title) \o ". " \o Format(OrEmpty(art.description))

\* one summarizer(...) call as dynamic_summarize(text_to_summarize) makes it
Call(art, outcome) ==
    LET text == TextToSummarize(art)
        kw == SummarizerKwargs(WordCount(text), DEFAULT_MIN_LEN, DEFAULT_MAX_LEN)
    IN [text |-> text, title |-> art.title, description |-> art.description,
        max_length |-> kw.max_length, min_length |-> kw.min_length, result |-> outcome]

\* an exception nobody catches: the interpreter prints the traceback and exits
Crash(e) ==
    /\ pc' = "crashed"
    /\ rpc' = "raised"
    /\ error' = e
    /\ UNCHANGED <<running, due>>

\* Mutant of Return: the job is not rescheduled after it ran
Return_KeepDue ==
    /\ rpc' = "idle"
    /\ running' = running - 1
    /\ error' = error
    /\ due' = due
    /\ pc' = IF pc = "once_run" THEN "register" ELSE "loop"

\* run_agent returns to the statement after its call; after a scheduled run the
\* job's next_run moves to the next day
Return ==
    /\ rpc' = "idle"
    /\ running' = running - 1
    /\ error' = error
    /\ IF pc = "once_run"
       THEN pc' = "register" /\ due' = due
       ELSE pc' = "loop" /\ due' = FALSE

\* run_agent is entered: the prints of lines 197-198, locals unset
Enter ==
    /\ rpc' = "fetch"
    /\ running' = running + 1
    /\ articles' = <<>> /\ filtered' = <<>> /\ final_summaries' = <<>>
    /\ calls' = <<>> /\ netlog' = <<>>
    /\ printed' = <<Msg("Buscando")>>

\* Mutant of FetchNoKey: the credential check comes after the request
FetchNoKey_RequestsFirst ==
    /\ rpc = "fetch" /\ ~NEWSAPI_KEY
    /\ netlog' = Append(netlog, Request(args.source, args.lista))
    /\ printed' = Append(printed, Msg("MissingCredential"))
    /\ articles' = <<>>
    /\ rpc' = "filter"
    /\ UNCHANGED <<NEWSAPI_KEY, args, pc, running, error, registered, due, polled, fires,
                   onceRuns, jobRuns, filtered, final_summaries, calls, sumVars>>

\* fetch_news without NEWSAPI_KEY: the message, [] and no request
FetchNoKey ==
    /\ rpc = "fetch" /\ ~NEWSAPI_KEY
    /\ printed' = Append(printed, Msg("MissingCredential"))
    /\ articles' = <<>>
    /\ rpc' = "filter"
    /\ UNCHANGED <<NEWSAPI_KEY, args, pc, running, error, registered, due, polled, fires,
                   onceRuns, jobRuns, filtered, final_summaries, calls, netlog, sumVars>>

\* requests.get(...) raises (no connection, timeout, ...)
FetchRaise ==
    /\ rpc = "fetch" /\ NEWSAPI_KEY
    /\ netlog' = Append(netlog, Request(args.source, args.lista))
    /\ Crash("ConnectionError")
    /\ UNCHANGED <<NEWSAPI_KEY, args, registered, polled, fires, onceRuns, jobRuns,
                   articles, filtered, final_summaries, calls, printed, sumVars>>

\* resp.status_code != 200
FetchError ==
    /\ rpc = "fetch" /\ NEWSAPI_KEY
    /\ netlog' = Append(netlog, Request(args.source, args.lista))
    /\ printed' = Append(printed, Msg("ProviderError"))
    /\ articles' = <<>>
    /\ rpc' = "filter"
    /\ UNCHANGED <<NEWSAPI_KEY, args, pc, running, error, registered, due, polled, fires,
                   onceRuns, jobRuns, filtered, final_summaries, calls, sumVars>>

\* a 200 response: its articles, normalised, in the provider's order
FetchOk ==
    /\ rpc = "fetch" /\ NEWSAPI_KEY
    /\ netlog' = Append(netlog, Request(args.source, args.lista))
    /\ \E raw \in Responses : articles' = Results(raw)
    /\ rpc' = "filter"
    /\ UNCHANGED <<NEWSAPI_KEY, args, pc, running, error, registered, due, polled, fires,
                   onceRuns, jobRuns, filtered, final_summaries, calls, printed, sumVars>>

\* filter_by_article_type raises on a None title
FilterCrash ==
    /\ rpc = "filter"
    /\ FilterRaises(articles, args.article_type)
    /\ Crash("AttributeError: title")
    /\ UNCHANGED <<NEWSAPI_KEY, args, registered, polled, fires, onceRuns, jobRuns,
                   articles, filtered, final_summaries, calls, netlog, printed, sumVars>>

\* Mutant of FilterEmpty: the message without the return
FilterEmpty_FallThrough ==
    /\ rpc = "filter"
    /\ ~FilterRaises(articles, args.article_type)
    /\ FilterByArticleType(articles, args.article_type) = <<>>
    /\ filtered' = <<>>
    /\ printed' = Append(printed, Msg("NoArticles"))
    /\ final_summaries' = <<>>
    /\ rpc' = "summarize"
    /\ UNCHANGED <<NEWSAPI_KEY, args, pc, running, error, registered, due, polled, fires,
                   onceRuns, jobRuns, articles, calls, netlog, sumVars>>

\* `if not filtered`: the message and return
FilterEmpty ==
    /\ rpc = "filter"
    /\ ~FilterRaises(articles, args.article_type)
    /\ FilterByArticleType(articles, args.article_type) = <<>>
    /\ filtered' = <<>>
    /\ printed' = Append(printed, Msg("NoArticles"))
    /\ Return
    /\ UNCHANGED <<NEWSAPI_KEY, args, registered, polled, fires, onceRuns, jobRuns,
                   articles, final_summaries, calls, netlog, sumVars>>

\* some article survives: final_summaries = [] and into the loop
FilterSome ==
    /\ rpc = "filter"
    /\ ~FilterRaises(articles, args.article_type)
    /\ FilterByArticleType(articles, args.article_type) # <<>>
    /\ filtered' = FilterByArticleType(articles, args.article_type)
    /\ final_summaries' = <<>>
    /\ rpc' = "summarize"
    /\ UNCHANGED <<NEWSAPI_KEY, args, pc, running, error, registered, due, polled, fires,
                   onceRuns, jobRuns, articles, calls, netlog, printed, sumVars>>

\* one iteration of `for i, art in enumerate(filtered, 1)`, the summarizer answering
Summarize ==
    /\ rpc = "summarize"
    /\ Len(final_summaries) < Len(filtered)
    /\ LET i == Len(final_summaries) + 1
           art == filtered[i]
       IN \E summary_text \in Summaries :
            /\ calls' = Append(calls, Call(art, summary_text))
            /\ final_summaries' = Append(final_summaries,
                                         Block(i, art.title, art.url, summary_text))
    /\ UNCHANGED <<NEWSAPI_KEY, args, pc, rpc, running, error, registered, due, polled,
                   fires, onceRuns, jobRuns, articles, filtered, netlog, printed, sumVars>>

\* one iteration in which summarizer(...) raises
SummarizeRaise ==
    /\ rpc = "summarize"
    /\ Len(final_summaries) < Len(filtered)
    /\ calls' = Append(calls, Call(filtered[Len(final_summaries) + 1], "raised"))
    /\ Crash("InferenceError")
    /\ UNCHANGED <<NEWSAPI_KEY, args, registered, polled, fires, onceRuns, jobRuns,
                   articles, filtered, final_summaries, netlog, printed, sumVars>>

\* the loop is over: the header, every block, and return
PrintSummaries ==
    /\ rpc = "summarize"
    /\ Len(final_summaries) = Len(filtered)
    /\ printed' = Append(printed, Msg("Header")) \o final_summaries
    /\ Return
    /\ UNCHANGED <<NEWSAPI_KEY, args, registered, polled, fires, onceRuns, jobRuns,
                   articles, filtered, final_summaries, calls, netlog, sumVars>>

(***************************************************************************)
(* __main__ and the schedule loop                                          *)
(***************************************************************************)
\* `if args.once: run_agent(args)`
MainOnce ==
    /\ pc = "main" /\ args.once
    /\ pc' = "once_run"
    /\ onceRuns' = onceRuns + 1
    /\ Enter
    /\ UNCHANGED <<NEWSAPI_KEY, args, error, registered, due, polled, fires, jobRuns,
                   sumVars>>

MainSkipOnce ==
    /\ pc = "main" /\ ~args.once
    /\ pc' = "register"
    /\ UNCHANGED <<NEWSAPI_KEY, args, rpc, running, error, registered, due, polled, fires,
                   onceRuns, jobRuns, articles, filtered, final_summaries, calls, netlog,
                   printed, sumVars>>

\* schedule.every().day.at(args.time).do(run_agent, args)
Register ==
    /\ pc = "register"
    /\ registered' = TRUE
    /\ pc' = "loop"
    /\ UNCHANGED <<NEWSAPI_KEY, args, rpc, running, error, due, polled, fires,
                   onceRuns, jobRuns, articles, filtered, final_summaries, calls, netlog,
                   printed, sumVars>>

\* the wall clock reaches the job's next_run
TriggerFires ==
    /\ registered /\ ~due
    /\ pc # "crashed"
    /\ fires < MaxFires
    /\ due' = TRUE
    /\ fires' = fires + 1
    /\ UNCHANGED <<NEWSAPI_KEY, args, pc, rpc, running, error, registered, polled,
                   onceRuns, jobRuns, articles, filtered, final_summaries, calls, netlog,
                   printed, sumVars>>

\* schedule.run_pending() finds nothing due; time.sleep(60)
PollIdle ==
    /\ pc = "loop" /\ ~due
    /\ polled' = TRUE
    /\ UNCHANGED <<NEWSAPI_KEY, args, pc, rpc, running, error, registered, due, fires,
                   onceRuns, jobRuns, articles, filtered, final_summaries, calls, netlog,
                   printed, sumVars>>

\* schedule.run_pending() finds the job due and calls run_agent(args)
PollRun ==
    /\ pc = "loop" /\ due
    /\ polled' = TRUE
    /\ pc' = "job_run"
    /\ jobRuns' = jobRuns + 1
    /\ Enter
    /\ UNCHANGED <<NEWSAPI_KEY, args, error, registered, due, fires, onceRuns, sumVars>>

Init ==
    /\ NEWSAPI_KEY \in BOOLEAN
    /\ args \in [once : BOOLEAN, source : Sources, article_type : ArticleTypes,
                 lista : {None, Str("bbc.co.uk,elpais.com")}]
    /\ pc = "main" /\ rpc = "idle" /\ running = 0 /\ error = "none"
    /\ registered = FALSE /\ due = FALSE /\ polled = FALSE
    /\ fires = 0 /\ onceRuns = 0 /\ jobRuns = 0
    /\ articles = <<>> /\ filtered = <<>> /\ final_summaries = <<>>
    /\ calls = <<>> /\ netlog = <<>> /\ printed = <<>>
    /\ word_count = 0 /\ min_len = DEFAULT_MIN_LEN /\ max_len = DEFAULT_MAX_LEN
    /\ inference = <<>>

Next ==
    \/ MainOnce \/ MainSkipOnce \/ Register \/ TriggerFires \/ PollIdle \/ PollRun
    \/ FetchNoKey \/ FetchRaise \/ FetchError \/ FetchOk
    \/ FilterCrash \/ FilterEmpty \/ FilterSome
    \/ Summarize \/ SummarizeRaise \/ PrintSummaries

Spec == Init /\ [][Next]_vars

(***************************************************************************)
(* Properties of the process                                               *)
(***************************************************************************)
\* a run has been made and has returned to its caller
RunEnded == rpc = "idle" /\ onceRuns + jobRuns > 0

\* filter_by_article_type has returned in the run in progress / last run
Filtered == rpc = "summarize" \/ error = "InferenceError" \/ RunEnded

Blocks == SelectSeq(printed, LAMBDA m : m.kind = "block")

Reported(tag) == \E k \in 1..Len(printed) : printed[k].kind = tag

IsSubsequence(sub, full) ==
    \E f \in [1..Len(sub) -> 1..Len(full)] :
        /\ \A a, b \in 1..Len(sub) : a < b => f[a] < f[b]
        /\ \A k \in 1..Len(sub) : full[f[k]] = sub[k]

\* C2: a failed run leaves the process in its polling loop, ready for the next fire;
\* no failure of a run ends the process.
C2_SchedulerSurvivesRunFailure ==
    error # "none" => pc \in {"register", "loop"}

\* C3: every article handed to the summarizer has a non-empty title, and an absent
\* description goes in as the empty string.
C3_NonEmptyTitleAtSummarizer ==
    \A k \in 1..Len(calls) :
        /\ IsStr(calls[k].title) /\ calls[k].title[2] # ""
        /\ ~Truthy(calls[k].description) => calls[k].text = calls[k].title[2] \o ". "

\* the keyword sets of the article categories
Keywords(article_type) ==
    CASE article_type = "divulgacion" -> {"divulgaci@n"}
      [] article_type = "paper" -> {"paper", "study", "investigaci@n"}
      [] article_type = "opinion" -> {"opini@n", "column", "op-ed"}
      [] article_type = "agency" -> {"agencia", "reuters", "associated press", "ap ", "afp"}
      [] OTHER -> {}

MatchesCategory(art, article_type) ==
    \E kw \in Keywords(article_type) :
        \/ Contains(kw, Lower(art.title[2]))
        \/ Contains(kw, Lower(OrEmpty(art.description)[2]))

\* C4: under a category other than ANY an article is kept exactly when some keyword
\* of the category occurs in its lower-cased title or lower-cased description.
C4_KeptIffKeywordInEitherField ==
    (Filtered /\ args.article_type \notin {"all", "any"}) =>
        \A k \in 1..Len(articles) :
            (\E j \in 1..Len(filtered) : filtered[j] = articles[k])
                <=> MatchesCategory(articles[k], args.article_type)

\* C6: the survivors are a subsequence of the fetched articles in the same order,
\* the summarizer is called once per survivor in that order, and the k-th block
\* printed is numbered k and carries the k-th survivor's title, url and summary.
C6_OrderPreserved ==
    Filtered =>
        /\ IsSubsequence(filtered, articles)
        /\ Len(calls) <= Len(filtered)
        /\ \A k \in 1..Len(calls) :
              /\ calls[k].title = filtered[k].title
              /\ calls[k].text =
                    Format(filtered[k].title) \o ". " \o
                    (IF filtered[k].description = None THEN ""
                     ELSE filtered[k].description[2])
        /\ (RunEnded /\ filtered # <<>>) =>
              /\ Len(calls) = Len(filtered)
              /\ Len(Blocks) = Len(filtered)
              /\ \A k \in 1..Len(filtered) :
                    /\ Blocks[k].n = k
                    /\ Blocks[k].title = Format(filtered[k].title)
                    /\ Blocks[k].url = Format(filtered[k].url)
                    /\ Blocks[k].summary = calls[k].result

\* a finished run under a keyword filter with two different survivors, summarized
\* differently
C6_Witness ==
    /\ RunEnded
    /\ args.article_type = "agency"
    /\ Len(filtered) = 2
    /\ filtered[1] # filtered[2]
    /\ Len(Blocks) = 2
    /\ Blocks[1].summary # Blocks[2].summary

\* C7: without a credential the fetch of either mode returns [] and reports it
\* without any request, and the run ends normally without calling the summarizer.
C7_NoCredentialNoRequest ==
    (~NEWSAPI_KEY) =>
        /\ netlog = <<>>
        /\ calls = <<>>
        /\ error = "none"
        /\ rpc \in {"idle", "fetch", "filter"}
        /\ rpc = "filter" => (articles = <<>> /\ Reported("MissingCredential"))
        /\ RunEnded =>
              /\ articles = <<>>
              /\ Reported("MissingCredential")
              /\ Reported("NoArticles")
              /\ Blocks = <<>>

\* the allowlisted mode, no credential, a scheduled run that has returned
C7_Witness ==
    /\ ~NEWSAPI_KEY
    /\ args.source = "lista"
    /\ RunEnded
    /\ jobRuns = 1
    /\ pc = "loop"
    /\ Reported("MissingCredential")

\* C8: a run that fetches nothing, or whose articles are all dropped, prints the
\* 'no articles' message and nothing else, returns normally and never calls the
\* summarizer.
C8_EmptyRunIsNormal ==
    /\ rpc = "summarize" => filtered # <<>>
    /\ error = "InferenceError" => filtered # <<>>
    /\ error = "AttributeError: title" => articles # <<>>
    /\ (RunEnded /\ (articles = <<>> \/ filtered = <<>>)) =>
          /\ printed[Len(printed)].kind = "NoArticles"
          /\ Blocks = <<>>
          /\ ~Reported("Header")
          /\ calls = <<>>
          /\ error = "none"
          /\ pc \in {"register", "loop"}

\* a finished run whose fetched articles were all dropped by the filter
C8_Witness ==
    /\ RunEnded
    /\ articles # <<>>
    /\ filtered = <<>>
    /\ Reported("NoArticles")
    /\ calls = <<>>

\* C9: a run starts only at process start under run_once (finished before the
\* trigger is registered and before the first poll) or when a poll finds the
\* trigger fired, once per fire; never while another run is in progress.
C9_SchedulerOrdering ==
    /\ running \in {0, 1}
    /\ running = 1 <=> rpc # "idle"
    /\ rpc # "idle" => pc \in {"once_run", "job_run", "crashed"}
    /\ onceRuns = (IF args.once /\ pc # "main" THEN 1 ELSE 0)
    /\ pc = "once_run" => (~registered /\ ~polled /\ fires = 0 /\ jobRuns = 0)
    /\ registered => pc \notin {"main", "once_run", "register"}
    /\ polled => registered
    /\ pc = "job_run" => due
    /\ jobRuns = fires - (IF due /\ pc = "loop" THEN 1 ELSE 0)

\* run_once, then two fires, each answered by one run, back in the wait loop
C9_Witness ==
    /\ args.once
    /\ onceRuns = 1
    /\ fires = 2
    /\ jobRuns = 2
    /\ pc = "loop"
    /\ ~due
    /\ rpc = "idle"

====
